---------------------------- MODULE Spec2Model ----------------------------
(***************************************************************************)
(* GuideLens medicine-identification server (server.py).                   *)
(*                                                                         *)
(* A text is a sequence of characters.  An ASCII character is the          *)
(* one-letter string holding it; a character outside ASCII is named by its *)
(* code point ("U+00C9"), so that the module itself stays ASCII.           *)
(*                                                                         *)
(* Spec          filter_text applied to a text, then to its own result.    *)
(* SpecIdentify  the POST /identify handler, one request per step.         *)
(***************************************************************************)
EXTENDS Integers, Sequences, FiniteSets, TLC

VARIABLES text, pc, filtered_words, result, refiltered,
          request, response, prompts, generated

vars == <<text, pc, filtered_words, result, refiltered,
          request, response, prompts, generated>>

identifyVars == <<request, response, prompts, generated>>

---------------------------------------------------------------------------
(* Characters and Python's str / re primitives used by server.py           *)

Chars(s) == [i \in 1..Len(s) |-> SubSeq(s, i, i)]

Range(s) == {s[i] : i \in 1..Len(s)}

Min(a, b) == IF a <= b THEN a ELSE b

ASCII_UPPER == Chars("ABCDEFGHIJKLMNOPQRSTUVWXYZ")

ASCII_LOWER == Chars("abcdefghijklmnopqrstuvwxyz")

ASCII_DIGITS == Range(Chars("0123456789"))

\* LATIN CAPITAL LETTER E WITH ACUTE and its lowercase form
E_ACUTE == "U+00C9"

e_acute == "U+00E9"

NON_ASCII_UPPER == {E_ACUTE}

NON_ASCII == {E_ACUTE, e_acute}

\* the value standing for a raised IndexError
IndexError == "IndexError"

\* str.split() and str.strip() without argument: whitespace characters
IsSpace(c) == c \in {" ", "\t", "\n", "\r", "\f"}

\* the class [a-zA-Z0-9] of the pattern r'[^a-zA-Z0-9]'
IsAlnumAscii(c) ==
    \/ c \in Range(ASCII_UPPER)
    \/ c \in Range(ASCII_LOWER)
    \/ c \in ASCII_DIGITS

IsUpperAsciiOnly(c) == c \in Range(ASCII_UPPER)

\* str.isupper() of a one-character string
IsUpper(c) == c \in Range(ASCII_UPPER) \/ c \in NON_ASCII_UPPER

LowerChar(c) ==
    IF c \in Range(ASCII_UPPER)
    THEN ASCII_LOWER[CHOOSE i \in 1..26 : ASCII_UPPER[i] = c]
    ELSE IF c = E_ACUTE THEN e_acute ELSE c

\* str.lower()
Lower(s) == [i \in 1..Len(s) |-> LowerChar(s[i])]

CleanToSpace(word) ==
    [i \in 1..Len(word) |-> IF IsAlnumAscii(word[i]) THEN word[i] ELSE " "]

\* re.sub(r'[^a-zA-Z0-9]', '', word)
Clean(word) == SelectSeq(word, IsAlnumAscii)

\* re.search(r'\d', cleaned): cleaned holds ASCII only, so \d is [0-9]
HasDigit(cleaned) == \E i \in 1..Len(cleaned) : cleaned[i] \in ASCII_DIGITS

\* sub in s
Contains(sub, s) ==
    \E i \in 0..(Len(s) - Len(sub)) : SubSeq(s, i + 1, i + Len(sub)) = sub

CharAtOffByOne(word, i) ==
    IF i + 2 \in 1..Len(word) THEN word[i + 2] ELSE IndexError

\* word[i]
CharAt(word, i) ==
    IF i + 1 \in 1..Len(word) THEN word[i + 1] ELSE IndexError

RECURSIVE LStrip(_)
LStrip(s) ==
    IF s # <<>> /\ IsSpace(Head(s)) THEN LStrip(Tail(s)) ELSE s

RECURSIVE RStrip(_)
RStrip(s) ==
    IF s # <<>> /\ IsSpace(s[Len(s)])
    THEN RStrip(SubSeq(s, 1, Len(s) - 1))
    ELSE s

\* str.strip()
Strip(s) == RStrip(LStrip(s))

RECURSIVE SplitFrom(_, _, _)
SplitFrom(s, word, words) ==
    IF s = <<>>
    THEN IF word = <<>> THEN words ELSE Append(words, word)
    ELSE IF IsSpace(Head(s))
         THEN SplitFrom(Tail(s), <<>>,
                        IF word = <<>> THEN words ELSE Append(words, word))
         ELSE SplitFrom(Tail(s), Append(word, Head(s)), words)

\* str.split(): the maximal runs of non-whitespace characters
Split(s) == SplitFrom(s, <<>>, <<>>)

RECURSIVE Join(_, _)
\* sep.join(words)
Join(sep, words) ==
    IF words = <<>> THEN <<>>
    ELSE IF Len(words) = 1 THEN words[1]
    ELSE words[1] \o sep \o Join(sep, Tail(words))

SliceNoLimit(words, n) == words

SliceLast(words, n) == SubSeq(words, Len(words) - Min(n, Len(words)) + 1, Len(words))

\* words[:n]
Slice(words, n) == SubSeq(words, 1, Min(n, Len(words)))

---------------------------------------------------------------------------
(* server.py: the fixed word sets                                          *)

STOP_WORDS ==
    { Chars(w) : w \in
      { "the", "is", "are", "was", "were", "a", "an", "and", "or", "but",
        "in", "on", "at", "to", "for", "of", "with", "by", "from", "it",
        "this", "that", "these", "those", "use", "used", "take" } }

MEDICAL_KEYWORDS ==
    { Chars(w) : w \in
      { "mg", "ml", "tablet", "capsule", "syrup", "medicine", "drug", "pill",
        "dose", "dosage", "prescription", "relief", "pain", "fever" } }

\* filtered_words[:4]
WordLimit == 4

\* len(cleaned) > 2
BrandMinLen == 2

---------------------------------------------------------------------------
(* server.py: filter_text                                                  *)

\* the guard of the first line: not text or len(text.strip()) == 0
IsBlank(t) == t = <<>> \/ Len(Strip(t)) = 0

\* "if not cleaned or lower in STOP_WORDS: continue"
Skip(word) ==
    LET cleaned == Clean(word)
        lower   == Lower(cleaned)
    IN  cleaned = <<>> \/ lower \in STOP_WORDS

KeepCleanedCapital(word) ==
    LET cleaned == Clean(word)
        lower   == Lower(cleaned)
    IN  \/ HasDigit(cleaned)
        \/ \E keyword \in MEDICAL_KEYWORDS : Contains(keyword, lower)
        \/ (IsUpper(CharAt(cleaned, 0)) /\ Len(cleaned) > BrandMinLen)

\* the condition under which the word is appended
Keep(word) ==
    LET cleaned == Clean(word)
        lower   == Lower(cleaned)
    IN  \/ HasDigit(cleaned)
        \/ \E keyword \in MEDICAL_KEYWORDS : Contains(keyword, lower)
        \/ (IsUpper(CharAt(word, 0)) /\ Len(cleaned) > BrandMinLen)

\* the condition's evaluation reaches word[0] with no character there
KeepRaises(word) ==
    LET cleaned == Clean(word)
        lower   == Lower(cleaned)
    IN  /\ ~HasDigit(cleaned)
        /\ ~\E keyword \in MEDICAL_KEYWORDS : Contains(keyword, lower)
        /\ CharAt(word, 0) = IndexError

RECURSIVE AccumulateLower(_, _)
AccumulateLower(words, acc) ==
    IF words = <<>> THEN acc
    ELSE LET word == Head(words)
         IN  IF Skip(word) THEN AccumulateLower(Tail(words), acc)
             ELSE IF Keep(word)
                  THEN AccumulateLower(Tail(words),
                                       Append(acc, Lower(Clean(word))))
                  ELSE AccumulateLower(Tail(words), acc)

RECURSIVE Accumulate(_, _)
\* the loop "for word in words", from the accumulator acc
Accumulate(words, acc) ==
    IF words = <<>> THEN acc
    ELSE LET word == Head(words)
         IN  IF Skip(word) THEN Accumulate(Tail(words), acc)
             ELSE IF Keep(word)
                  THEN Accumulate(Tail(words), Append(acc, Clean(word)))
                  ELSE Accumulate(Tail(words), acc)

\* some iteration of the loop raises
LoopRaises(words) ==
    \E i \in 1..Len(words) : ~Skip(words[i]) /\ KeepRaises(words[i])

\* filtered_words when the function returns
FilteredWords(t) ==
    IF IsBlank(t) THEN <<>> ELSE Accumulate(Split(t), <<>>)

filter_text_raises(t) == ~IsBlank(t) /\ LoopRaises(Split(t))

filter_text_no_fallback(t) ==
    IF IsBlank(t) THEN t
    ELSE Join(<<" ">>, Slice(Accumulate(Split(t), <<>>), WordLimit))

\* the value filter_text returns for a string
filter_text(t) ==
    IF IsBlank(t) THEN t
    ELSE LET joined == Join(<<" ">>, Slice(Accumulate(Split(t), <<>>), WordLimit))
         IN  IF joined # <<>> THEN joined ELSE t

---------------------------------------------------------------------------
(* Inputs                                                                  *)

MaxTokens == 5

MaxMixed == 2

\* tokens for long texts
CoreTokens == { Chars("a"), Chars("5"), Chars("Ab.c") }

\* one token per case of the loop body
MixedTokens ==
    CoreTokens \cup
    { Chars("The"), Chars("Mg"), Chars("(Abc"), Chars("Ab"), Chars("b"),
      Chars("-"), <<E_ACUTE>> \o Chars("bcd") }

SeqsUpTo(S, n) == UNION {[1..k -> S] : k \in 0..n}

TokenSeqs == SeqsUpTo(CoreTokens, MaxTokens) \cup SeqsUpTo(MixedTokens, MaxMixed)

\* whitespace before, between and after the tokens
Layouts ==
    { [lead |-> <<>>,    sep |-> <<" ">>,       trail |-> <<>>],
      [lead |-> <<" ">>, sep |-> <<" ", " ">>,  trail |-> <<>>],
      [lead |-> <<>>,    sep |-> <<"\n">>,      trail |-> <<"\t">>] }

Inputs == { l.lead \o Join(l.sep, ws) \o l.trail : ws \in TokenSeqs, l \in Layouts }

IsAscii(t) == \A i \in 1..Len(t) : t[i] \notin NON_ASCII

---------------------------------------------------------------------------
(* Spec: filter_text applied to an input and then to its own result        *)

NoRequest == [kind |-> "none"]

NoResponse == [status |-> 0]

Init ==
    /\ text \in Inputs
    /\ pc = "start"
    /\ filtered_words = <<>>
    /\ result = <<>>
    /\ refiltered = <<>>
    /\ request = NoRequest
    /\ response = NoResponse
    /\ prompts = <<>>
    /\ generated = <<>>

\* result = filter_text(text)
Filter ==
    /\ pc = "start"
    /\ IF filter_text_raises(text)
       THEN /\ pc' = "raised"
            /\ UNCHANGED <<filtered_words, result>>
       ELSE /\ pc' = "filtered"
            /\ filtered_words' = FilteredWords(text)
            /\ result' = filter_text(text)
    /\ UNCHANGED <<text, refiltered>>
    /\ UNCHANGED identifyVars

\* refiltered = filter_text(result)
Refilter ==
    /\ pc = "filtered"
    /\ IF filter_text_raises(result)
       THEN /\ pc' = "raised"
            /\ UNCHANGED refiltered
       ELSE /\ pc' = "done"
            /\ refiltered' = filter_text(result)
    /\ UNCHANGED <<text, filtered_words, result>>
    /\ UNCHANGED identifyVars

Next == Filter \/ Refilter

Spec == Init /\ [][Next]_vars

---------------------------------------------------------------------------
(* server.py: the /identify and /health handlers                           *)
(*                                                                         *)
(* A JSON value is [type, src]: src is the content of a string, and the    *)
(* JSON text of any other value.  An optional field of a response is <<>>  *)
(* for null and <<v>> for the value v.                                     *)

None == <<>>

Some(v) == <<v>>

JsonNull == [type |-> "null", src |-> Chars("null")]

JsonStr(t) == [type |-> "str", src |-> t]

JsonNumber(digits) == [type |-> "number", src |-> Chars(digits)]

JsonArray(src) == [type |-> "array", src |-> Chars(src)]

\* Python's truth value of a decoded JSON value
Truthy(v) ==
    CASE v.type = "null"   -> FALSE
      [] v.type = "str"    -> v.src # <<>>
      [] v.type = "number" -> v.src # Chars("0")
      [] v.type = "array"  -> v.src # Chars("[]")

\* type(v).__name__
TypeName(v) ==
    CASE v.type = "null"   -> Chars("NoneType")
      [] v.type = "str"    -> Chars("str")
      [] v.type = "number" -> Chars("int")
      [] v.type = "array"  -> Chars("list")

\* str(e) of the exceptions request.json raises (werkzeug)
UNSUPPORTED_MEDIA_TYPE ==
    Chars("415 Unsupported Media Type: Did not attempt to load JSON data because the request Content-Type was not 'application/json'.")

BAD_REQUEST ==
    Chars("400 Bad Request: The browser (or proxy) sent a request that this server could not understand.")

BAD_REQUEST_DEBUG ==
    Chars("400 Bad Request: Failed to decode JSON object: Expecting ',' delimiter: line 1 column 10 (char 9)")

\* request.json: what the installed Flask does with the body.  A body that
\* is not JSON gives None (Flask before 2.1) or raises; a malformed one raises.
RequestJson(req) ==
    CASE req.body = "missing" ->
            { [raised |-> FALSE, msg |-> <<>>],
              [raised |-> TRUE,  msg |-> UNSUPPORTED_MEDIA_TYPE] }
      [] req.body = "malformed" ->
            { [raised |-> TRUE, msg |-> BAD_REQUEST],
              [raised |-> TRUE, msg |-> BAD_REQUEST_DEBUG] }
      [] OTHER ->
            { [raised |-> FALSE, msg |-> <<>>] }

\* "not data": the body decoded to None, 0 or {}
DataFalsy(req) ==
    \/ req.body = "missing"
    \/ req.body = "number" /\ req.number = Chars("0")
    \/ req.body = "object" /\ req.keys = {}

\* filter_text called with a decoded JSON value: a falsy value is returned
\* as it is, a string is filtered, any other value has no strip()
FilterValueRaises(v) ==
    /\ Truthy(v)
    /\ IF v.type = "str" THEN filter_text_raises(v.src) ELSE TRUE

FilterValueError(v) ==
    Chars("'") \o TypeName(v) \o Chars("' object has no attribute 'strip'")

FilterValue(v) ==
    IF ~Truthy(v) THEN v ELSE JsonStr(filter_text(v.src))

\* len(filtered_text.strip()) < 2
MinFilteredLen == 2

\* "not filtered_text or len(filtered_text.strip()) < 2"
TooShort(v) == ~Truthy(v) \/ Len(Strip(v.src)) < MinFilteredLen

PROMPT_HEAD == Chars("\nScanned text from medicine package: \"")

PROMPT_TAIL ==
    Chars("\"\n\nIdentify the medicine and provide a ONE-LINE response in this exact format:\n[Medicine Name] - [Primary Use]\n\nExample: \"Paracetamol 500mg - Pain and fever relief\"\n\nKeep it extremely concise. No warnings or additional information.\n")

\* the f-string of the prompt
Prompt(filtered) == PROMPT_HEAD \o filtered \o PROMPT_TAIL

\* str.replace('\n', ' ')
ReplaceNewlines(t) == [i \in 1..Len(t) |-> IF t[i] = "\n" THEN " " ELSE t[i]]

\* response.text.replace('\n', ' ').strip()
ModelResult(t) == Strip(ReplaceNewlines(t))

IsQuotaErrorCaseSensitive(msg) ==
    Contains(Chars("quota"), msg) \/ Contains(Chars("limit"), msg)

\* "quota" in error_msg.lower() or "limit" in error_msg.lower()
IsQuotaError(msg) ==
    Contains(Chars("quota"), Lower(msg)) \/ Contains(Chars("limit"), Lower(msg))

\* the except branch: the response for an exception whose str() is msg
ExceptResponse(msg) ==
    IF IsQuotaError(msg)
    THEN [status |-> 429, result |-> None,
          error |-> Some(Chars("API quota exceeded. Please try again later."))]
    ELSE [status |-> 500, result |-> None,
          error |-> Some(Chars("Server error: ") \o msg)]

NoTextProvided == [status |-> 400, error |-> Some(Chars("No text provided"))]

NoMeaningfulText ==
    [status |-> 400, result |-> None,
     error |-> Some(Chars("No meaningful text detected after filtering"))]

Success(t, filtered) ==
    [status |-> 200, result |-> Some(ModelResult(t)), error |-> None,
     filtered_text |-> filtered]

---------------------------------------------------------------------------
(* Requests and model outcomes                                             *)

MaxRequestTokens == 1

MaxReplyLen == 3

RequestTexts ==
    { l.lead \o Join(l.sep, ws) \o l.trail :
        ws \in SeqsUpTo(MixedTokens, MaxRequestTokens), l \in Layouts }

TextValues ==
    {JsonStr(t) : t \in RequestTexts}
        \cup {JsonNull, JsonNumber("0"), JsonNumber("123"),
              JsonArray("[]"), JsonArray("[1]")}

IdentifyRequest(body, number, keys, value) ==
    [route |-> "/identify", body |-> body, number |-> Chars(number),
     keys |-> keys, text |-> value]

Requests ==
    { IdentifyRequest("missing", "", {}, JsonNull),
      IdentifyRequest("malformed", "", {}, JsonNull),
      IdentifyRequest("number", "0", {}, JsonNull),
      IdentifyRequest("number", "5", {}, JsonNull),
      IdentifyRequest("object", "", {}, JsonNull),
      IdentifyRequest("object", "", {"lang"}, JsonNull),
      [route |-> "/health", body |-> "missing", number |-> <<>>,
       keys |-> {}, text |-> JsonNull] }
    \cup { IdentifyRequest("object", "", {"text"}, v) : v \in TextValues }
    \cup { IdentifyRequest("object", "", {"text", "lang"}, JsonStr(t)) :
             t \in {Chars("Ab.c"), Chars("a")} }

ModelTexts == SeqsUpTo({"P", " ", "\n"}, MaxReplyLen)

ModelErrors ==
    { Chars("429 Resource has been exhausted (e.g. check quota)."),
      Chars("Rate LIMIT reached"),
      Chars("504 Deadline Exceeded"),
      <<>> }

\* model.generate_content(prompt) followed by response.text
ModelOutcomes ==
    {[raised |-> FALSE, val |-> t] : t \in ModelTexts}
        \cup {[raised |-> TRUE, val |-> m] : m \in ModelErrors}

---------------------------------------------------------------------------
(* SpecIdentify: one request, handled by its route's handler               *)

InitIdentify ==
    /\ request \in Requests
    /\ pc = "received"
    /\ response = NoResponse
    /\ prompts = <<>>
    /\ generated = <<>>
    /\ text = <<>>
    /\ filtered_words = <<>>
    /\ result = <<>>
    /\ refiltered = <<>>

\* GET /health
health ==
    /\ pc = "received"
    /\ request.route = "/health"
    /\ response' = [status |-> 200, status_text |-> Chars("ok"),
                    server |-> Chars("running"),
                    api |-> Chars("gemini-1.5-flash")]
    /\ pc' = "responded"
    /\ UNCHANGED <<request, prompts, generated>>
    /\ UNCHANGED <<text, filtered_words, result, refiltered>>

\* POST /identify: the try block up to the model call, then the call and
\* the except branch
identify ==
    /\ pc = "received"
    /\ request.route = "/identify"
    /\ \E json \in RequestJson(request), outcome \in ModelOutcomes :
        IF json.raised
        THEN /\ response' = ExceptResponse(json.msg)
             /\ UNCHANGED <<prompts, generated>>
        ELSE IF DataFalsy(request)
        THEN /\ response' = NoTextProvided
             /\ UNCHANGED <<prompts, generated>>
        ELSE IF request.body = "number"
        THEN /\ response' = ExceptResponse(
                    Chars("argument of type 'int' is not iterable"))
             /\ UNCHANGED <<prompts, generated>>
        ELSE IF "text" \notin request.keys
        THEN /\ response' = NoTextProvided
             /\ UNCHANGED <<prompts, generated>>
        ELSE IF FilterValueRaises(request.text)
        THEN /\ response' = ExceptResponse(FilterValueError(request.text))
             /\ UNCHANGED <<prompts, generated>>
        ELSE LET filtered_text == FilterValue(request.text)
             IN  IF TooShort(filtered_text)
                 THEN /\ response' = NoMeaningfulText
                      /\ UNCHANGED <<prompts, generated>>
                 ELSE /\ prompts' = <<Prompt(filtered_text.src)>>
                      /\ generated' = <<outcome>>
                      /\ response' =
                            IF outcome.raised
                            THEN ExceptResponse(outcome.val)
                            ELSE Success(outcome.val, filtered_text.src)
    /\ pc' = "responded"
    /\ UNCHANGED request
    /\ UNCHANGED <<text, filtered_words, result, refiltered>>

NextIdentify == identify \/ health

SpecIdentify == InitIdentify /\ [][NextIdentify]_vars

Returned == pc \in {"filtered", "done"}

---------------------------------------------------------------------------
(* The vocabulary of the properties, stated without the operators above    *)

LettersAndDigits ==
    Range(Chars("abcdefghijklmnopqrstuvwxyzABCDEFGHIJKLMNOPQRSTUVWXYZ0123456789"))

UppercaseLetters == Range(Chars("ABCDEFGHIJKLMNOPQRSTUVWXYZ")) \cup {E_ACUTE}

Blank(c) == c \in {" ", "\t", "\n", "\r", "\f"}

IsLetterOrDigit(c) == c \in LettersAndDigits

\* the token with every character other than an ASCII letter or digit removed
Cleaned(token) == SelectSeq(token, IsLetterOrDigit)

\* number of whitespace-delimited tokens of t
TokenCount(t) ==
    Cardinality({i \in 1..Len(t) : ~Blank(t[i]) /\ (i = 1 \/ Blank(t[i - 1]))})

\* the whitespace-delimited tokens of t, left to right
Tokens(t) ==
    LET starts == {i \in 1..Len(t) : ~Blank(t[i]) /\ (i = 1 \/ Blank(t[i - 1]))}
        EndOf(i) == CHOOSE j \in i..Len(t) :
                        /\ \A k \in i..j : ~Blank(t[k])
                        /\ (j = Len(t) \/ Blank(t[j + 1]))
        Nth(n) == CHOOSE i \in starts : Cardinality({j \in starts : j < i}) = n - 1
    IN  [n \in 1..Cardinality(starts) |-> SubSeq(t, Nth(n), EndOf(Nth(n)))]

HasDigitIn(s) == \E i \in 1..Len(s) : s[i] \in Range(Chars("0123456789"))

HasKeywordIn(s) ==
    \E k \in MEDICAL_KEYWORDS :
        \E i \in 1..Len(s) :
            /\ i + Len(k) - 1 <= Len(s)
            /\ \A j \in 1..Len(k) : LowerChar(s[i + j - 1]) = k[j]

IsStopWord(s) == \E w \in STOP_WORDS :
    Len(w) = Len(s) /\ \A j \in 1..Len(w) : LowerChar(s[j]) = w[j]

CapitalRule(token) ==
    token[1] \in UppercaseLetters /\ Len(Cleaned(token)) > 2

\* a token qualifies
Qualifies(token) ==
    /\ Cleaned(token) # <<>>
    /\ ~IsStopWord(Cleaned(token))
    /\ \/ HasDigitIn(Cleaned(token))
       \/ HasKeywordIn(Cleaned(token))
       \/ CapitalRule(token)

QualifyingTokens(t) == SelectSeq(Tokens(t), Qualifies)

CleanedAll(ws) == [i \in 1..Len(ws) |-> Cleaned(ws[i])]

---------------------------------------------------------------------------
(* Properties of filter_text                                               *)

\* C1 as stated: whatever the input, the string filter_text returns has at
\* most 4 whitespace-delimited tokens.
C1_AtMostFourTokensAlways ==
    Returned => TokenCount(result) <= 4

\* C1 as amended: when at least one token of the input qualifies, the string
\* filter_text returns has at most 4 tokens; when none qualifies it is the
\* input itself, with all of the input's tokens.
C1_AtMostFourTokensWhenFiltered ==
    Returned =>
        IF QualifyingTokens(text) # <<>>
        THEN TokenCount(result) <= 4
        ELSE result = text /\ TokenCount(result) = TokenCount(text)

C1_Witness ==
    /\ pc = "filtered"
    /\ Len(QualifyingTokens(text)) > 4
    /\ TokenCount(result) = 4

\* C2: filter_text returns its input, character for character, whenever no
\* token of the input qualifies (empty, whitespace-only, stop words only,
\* punctuation only).
C2_FallbackReturnsInput ==
    (Returned /\ QualifyingTokens(text) = <<>>) => result = text

C2_Witness ==
    /\ pc = "filtered"
    /\ TokenCount(text) >= 2
    /\ \E i \in 1..Len(Tokens(text)) : IsStopWord(Cleaned(Tokens(text)[i]))
    /\ \E i \in 1..Len(Tokens(text)) : Cleaned(Tokens(text)[i]) = <<>>
    /\ QualifyingTokens(text) = <<>>
    /\ result = text

\* C3: when some token qualifies, the result is the cleaned forms of the
\* first min(4, k) qualifying tokens, in input order, joined by single
\* spaces.
C3_FirstFourInOrder ==
    (Returned /\ QualifyingTokens(text) # <<>>) =>
        LET q == QualifyingTokens(text)
            n == IF Len(q) < 4 THEN Len(q) ELSE 4
        IN  /\ TokenCount(result) = n
            /\ Tokens(result) = CleanedAll(SubSeq(q, 1, n))
            /\ \A i \in 1..Len(result) :
                   Blank(result[i]) =>
                       /\ result[i] = " "
                       /\ 1 < i /\ i < Len(result)
                       /\ ~Blank(result[i - 1]) /\ ~Blank(result[i + 1])

C3_Witness ==
    /\ pc = "filtered"
    /\ Len(QualifyingTokens(text)) = 5
    /\ Cleaned(QualifyingTokens(text)[5]) # Cleaned(QualifyingTokens(text)[4])
    /\ Cleaned(QualifyingTokens(text)[5]) # Cleaned(QualifyingTokens(text)[1])
    /\ Cleaned(QualifyingTokens(text)[1]) # Cleaned(QualifyingTokens(text)[2])
    /\ TokenCount(result) = 4

\* C4: a token is appended to the accumulator exactly when its cleaned form
\* is non-empty, is not a stop word, and it has a digit, or contains a
\* medical keyword, or the original token starts with an uppercase letter
\* and the cleaned form is longer than 2; "The" is discarded and "(Abc"
\* does not qualify.
C4_QualificationRule ==
    pc = "filtered" =>
        /\ filtered_words = CleanedAll(QualifyingTokens(text))
        /\ (Chars("The") \in Range(Tokens(text)) /\ TokenCount(text) = 1)
               => filtered_words = <<>>
        /\ (Chars("(Abc") \in Range(Tokens(text)) /\ TokenCount(text) = 1)
               => filtered_words = <<>>

C4_Witness ==
    /\ pc = "filtered"
    /\ Tokens(text) = <<Chars("(Abc"), Chars("Ab.c")>>
    /\ filtered_words = <<Chars("Abc")>>

\* C5: filter_text never raises; the first character of the original token
\* is never read from an empty token.
C5_Total ==
    /\ pc # "raised"
    /\ Returned => result \in Seq(LettersAndDigits \cup NON_ASCII
                                   \cup {" ", "\t", "\n", "(", ")", ".", "-"})

C5_Witness ==
    /\ pc = "done"
    /\ TokenCount(text) >= 1
    /\ \A i \in 1..Len(Tokens(text)) : Len(Cleaned(Tokens(text)[i])) <= 1
    /\ \E i \in 1..Len(Tokens(text)) : Cleaned(Tokens(text)[i]) = <<>>
    /\ \E i \in 1..Len(Tokens(text)) : Tokens(text)[i] = Chars("b")

\* the first token qualifies only by its uppercase first character, which is
\* not an ASCII letter, and the second token has a digit
CapitalOnlyThenDigit(t) ==
    /\ TokenCount(t) >= 2
    /\ LET first == Tokens(t)[1]
       IN  /\ first[1] \in UppercaseLetters \ LettersAndDigits
           /\ Len(Cleaned(first)) > 2
           /\ ~IsStopWord(Cleaned(first))
           /\ ~HasDigitIn(Cleaned(first))
           /\ ~HasKeywordIn(Cleaned(first))
    /\ HasDigitIn(Cleaned(Tokens(t)[2]))

\* C6: filter_text is not idempotent in general: filtering the result again
\* drops a token that had qualified only through the capital rule.
C6_NotIdempotent ==
    (pc = "done" /\ CapitalOnlyThenDigit(text)) =>
        /\ refiltered # result
        /\ Tokens(result)[1] = Cleaned(Tokens(text)[1])
        /\ Cleaned(Tokens(text)[1]) \notin Range(Tokens(refiltered))

C6_Witness ==
    /\ pc = "done"
    /\ CapitalOnlyThenDigit(text)
    /\ refiltered # result

\* C7: the result never has more whitespace-delimited tokens than the input.
C7_NoMoreTokensThanInput ==
    Returned => TokenCount(result) <= TokenCount(text)

C7_Witness ==
    /\ pc = "filtered"
    /\ TokenCount(result) = 2
    /\ TokenCount(text) = 3
    /\ \E i \in 1..3 : Cleaned(Tokens(text)[i]) # Tokens(text)[i]
                        /\ Qualifies(Tokens(text)[i])

\* C10: on inputs made of ASCII characters only, filtering the result again
\* gives the same result.
C10_IdempotentOnAscii ==
    (pc = "done" /\ IsAscii(text)) => refiltered = result

C10_Witness ==
    /\ pc = "done"
    /\ IsAscii(text)
    /\ result # text
    /\ \E i \in 1..Len(Tokens(text)) :
           LET w == Tokens(text)[i]
           IN  Qualifies(w) /\ ~HasDigitIn(Cleaned(w)) /\ ~HasKeywordIn(Cleaned(w))
    /\ TokenCount(result) >= 2
    /\ refiltered = result

---------------------------------------------------------------------------
(* Properties of POST /identify                                            *)

\* t without its leading and trailing whitespace
Trimmed(t) ==
    LET solid == {i \in 1..Len(t) : ~Blank(t[i])}
    IN  IF solid = {} THEN <<>>
        ELSE SubSeq(t, CHOOSE i \in solid : \A j \in solid : i <= j,
                       CHOOSE i \in solid : \A j \in solid : j <= i)

\* t with every newline replaced by a space, then trimmed
SingleLine(t) ==
    Trimmed([i \in 1..Len(t) |-> IF t[i] = "\n" THEN " " ELSE t[i]])

\* k occurs in s, whatever the case of the letters of s
MentionsIgnoringCase(k, s) ==
    \E i \in 1..Len(s) :
        /\ i + Len(k) - 1 <= Len(s)
        /\ \A j \in 1..Len(k) : LowerChar(s[i + j - 1]) = k[j]

\* the kinds of bad input the handler is said to reject
BadInput(req) ==
    /\ req.route = "/identify"
    /\ \/ req.body \in {"missing", "malformed"}
       \/ req.body = "object" /\ "text" \notin req.keys
       \/ req.body = "object" /\ "text" \in req.keys /\ req.text.type # "str"
       \/ /\ req.body = "object" /\ "text" \in req.keys /\ req.text.type = "str"
          /\ Len(Trimmed(filter_text(req.text.src))) < 2

\* a request that passes every check
Accepted(req) ==
    /\ req.route = "/identify"
    /\ req.body = "object"
    /\ "text" \in req.keys
    /\ req.text.type = "str"
    /\ Len(Trimmed(filter_text(req.text.src))) >= 2

\* C8: every bad-input request (no or malformed JSON body, no 'text' field,
\* a 'text' that is not a string, a filtered text shorter than 2 characters)
\* is answered with 400 and without a call of the model.
C8_BadInputIs400 ==
    (pc = "responded" /\ BadInput(request)) =>
        response.status = 400 /\ prompts = <<>>

\* C9: an accepted request gets 200 with the model text on a single line,
\* a null error and the filtered text when the model call returns; 429 when
\* it raises an error mentioning quota or limit in any case; 500 for any
\* other error; 429 and 500 carry a null result and a non-empty error.
C9_AcceptedResponses ==
    (pc = "responded" /\ Accepted(request)) =>
        /\ Len(generated) = 1
        /\ LET outcome == generated[1]
           IN  IF ~outcome.raised
               THEN /\ response.status = 200
                    /\ response.result = <<SingleLine(outcome.val)>>
                    /\ "\n" \notin Range(response.result[1])
                    /\ response.error = <<>>
                    /\ response.filtered_text = filter_text(request.text.src)
               ELSE /\ response.status =
                          IF \/ MentionsIgnoringCase(Chars("quota"), outcome.val)
                             \/ MentionsIgnoringCase(Chars("limit"), outcome.val)
                          THEN 429 ELSE 500
                    /\ response.result = <<>>
                    /\ Len(response.error) = 1
                    /\ response.error[1] # <<>>

C9_Witness ==
    /\ pc = "responded"
    /\ Accepted(request)
    /\ response.status = 200
    /\ generated[1].val = <<"P", "\n", "P">>
    /\ response.result = <<<<"P", " ", "P">>>>
    /\ response.filtered_text # request.text.src

=============================================================================
